---- MODULE Spec2Model ----
(***************************************************************************)
(* Model of the candidate search of TalentGraph Copilot (src/app.py).      *)
(*                                                                         *)
(* The state is the two SQLite tables that search_candidates reads         *)
(* (candidates, projects) and the outcome of the search_candidates call    *)
(* of the running script run.  The actions are the module's functions that *)
(* write those tables (upsert_candidate_profile, add_project),             *)
(* search_candidates itself, and the end of the script run of the Search   *)
(* button, with which the returned frame goes out of scope.                *)
(*                                                                         *)
(* The users table, st.session_state and the script runs of main (Register,*)
(* Login, Logout and the Dashboard) are the state and the actions of       *)
(* SessionSpec, further down.                                              *)
(*                                                                         *)
(* Text values are sequences of one-character strings, so that lower(),    *)
(* strip(), split(","), startswith() and the substring test `in` are       *)
(* computed, not assumed.  Python's None / SQL NULL is the value None      *)
(* below, which is not a text.  Scores and years are kept in hundredths,   *)
(* the precision round(x, 2) leaves in the result rows.                    *)
(***************************************************************************)
EXTENDS Integers, Sequences, FiniteSets, Bags

VARIABLES
    candidates,   \* table candidates: username -> row, for the usernames present
    projects,     \* table projects: the bag of its rows (the id column, which
                  \* nothing reads, is left out)
    call,         \* arguments of the search_candidates call of this script run
    ret,          \* outcome of that call: returned rows, or the exception raised
    users,        \* table users: the set of its rows
    session_state,\* st.session_state: logged_in, username, role
    now,          \* datetime.utcnow(), counted in create_user calls
    run           \* the last script run of main with a submitted form or a
                  \* pressed button: the menu choice, the form's values and the
                  \* message shown

vars == <<candidates, projects, call, ret, users, session_state, now, run>>

-----------------------------------------------------------------------------
(* Bounds of the model *)

\* rows the projects table may hold
MaxProjects == 2

\* rows the projects table may hold when the rows are drawn from
\* DatedProjectInputs
MaxDatedProjects == 3

\* rows added to the projects table from the Dashboard
MaxAddedProjects == 1

\* create_user calls of the Register form
MaxRegistrations == 3

-----------------------------------------------------------------------------
(* Python values *)

\* None (and SQL NULL): a one-element sequence whose element is no character
None == <<"None">>

\* bool(v) of a str-or-None value: None and "" are falsy
Truthy(v) == v # None /\ v # <<>>

\* str(v): str(None) is the text "None"
Str(v) == IF v = None THEN <<"N", "o", "n", "e">> ELSE v

UpperChars == <<"A", "B", "E", "F", "H", "I", "K", "L", "M", "N", "P", "R", "S">>
LowerChars == <<"a", "b", "e", "f", "h", "i", "k", "l", "m", "n", "p", "r", "s">>

\* str.lower() of one character
LowerChar(c) ==
    IF \E i \in 1..Len(UpperChars) : UpperChars[i] = c
    THEN LowerChars[CHOOSE i \in 1..Len(UpperChars) : UpperChars[i] = c]
    ELSE c

\* str.lower()
Lower(s) == [i \in 1..Len(s) |-> LowerChar(s[i])]

RECURSIVE LStrip(_)
LStrip(s) == IF s # <<>> /\ Head(s) = " " THEN LStrip(Tail(s)) ELSE s

RECURSIVE RStrip(_)
RStrip(s) ==
    IF s # <<>> /\ s[Len(s)] = " " THEN RStrip(SubSeq(s, 1, Len(s) - 1)) ELSE s

\* str.strip()
Strip(s) == RStrip(LStrip(s))

\* a in b, for two texts
Contains(b, a) ==
    \E i \in 0..(Len(b) - Len(a)) : SubSeq(b, i + 1, i + Len(a)) = a

\* b.startswith(a)
StartsWith(b, a) == Len(a) <= Len(b) /\ SubSeq(b, 1, Len(a)) = a

\* s.split(","): the pieces between the commas, empty pieces included
RECURSIVE Split(_)
Split(s) ==
    IF \E i \in 1..Len(s) : s[i] = ","
    THEN LET i == CHOOSE k \in 1..Len(s) :
                      s[k] = "," /\ \A j \in 1..(k - 1) : s[j] # ","
         IN  <<SubSeq(s, 1, i - 1)>> \o Split(SubSeq(s, i + 1, Len(s)))
    ELSE <<s>>

\* round(n / d, 2) in hundredths, for n >= 0 and d > 0 (ties to even)
Round2(n, d) ==
    LET q == (100 * n) \div d
        r == (100 * n) % d
    IN  IF 2 * r < d THEN q
        ELSE IF 2 * r > d THEN q + 1
        ELSE IF q % 2 = 0 THEN q ELSE q + 1

Max(a, b) == IF a >= b THEN a ELSE b
Min(a, b) == IF a <= b THEN a ELSE b

-----------------------------------------------------------------------------
(* Dates *)

Digits == <<"0", "1", "2", "3", "4", "5", "6", "7", "8", "9">>
IsDigit(c) == \E i \in 1..10 : Digits[i] = c
DigitVal(c) == (CHOOSE i \in 1..10 : Digits[i] = c) - 1

RECURSIVE Number(_)
Number(s) ==
    IF s = <<>> THEN 0 ELSE 10 * Number(SubSeq(s, 1, Len(s) - 1)) + DigitVal(s[Len(s)])

IsLeap(y) == (y % 4 = 0 /\ y % 100 # 0) \/ y % 400 = 0

DaysInMonth(y, m) ==
    IF m = 2 THEN (IF IsLeap(y) THEN 29 ELSE 28)
    ELSE IF m \in {4, 6, 9, 11} THEN 30 ELSE 31

\* the texts of the model that dateutil's parser.parse accepts are the ISO dates
\* YYYY-MM-DD; every other text of the model (and None) makes it raise
IsIsoDate(s) ==
    /\ s # None
    /\ Len(s) = 10
    /\ s[5] = "-" /\ s[8] = "-"
    /\ \A i \in {1, 2, 3, 4, 6, 7, 9, 10} : IsDigit(s[i])
    /\ LET y == Number(SubSeq(s, 1, 4))
           m == Number(SubSeq(s, 6, 7))
           d == Number(SubSeq(s, 9, 10))
       IN  y >= 1 /\ m \in 1..12 /\ d \in 1..DaysInMonth(y, m)

\* parser.parse(s).date() of an ISO date
ParseDate(s) ==
    [y |-> Number(SubSeq(s, 1, 4)),
     m |-> Number(SubSeq(s, 6, 7)),
     d |-> Number(SubSeq(s, 9, 10))]

\* days of a date since a fixed epoch (proleptic Gregorian calendar), so that
\* (a - b).days = DayNumber(a) - DayNumber(b)
DayNumber(dt) ==
    LET y   == IF dt.m <= 2 THEN dt.y - 1 ELSE dt.y
        mp  == IF dt.m > 2 THEN dt.m - 3 ELSE dt.m + 9
        doy == (153 * mp + 2) \div 5 + dt.d - 1
    IN  365 * y + y \div 4 - y \div 100 + y \div 400 + doy

\* date.today(): the day the search runs
Today == [y |-> 2026, m |-> 11, d |-> 1]


-----------------------------------------------------------------------------
(* The values the calls of the model are made with *)

Usernames == {"ann", "raj"}

\* (location, availability) pairs given to upsert_candidate_profile
s_BgIN == <<"B", "g", ",", " ", "I", "N">>
s_Hyd == <<"H", "y", "d">>
s_1month == <<"1", " ", "m", "o", "n", "t", "h">>
s_Immediate == <<"I", "m", "m", "e", "d", "i", "a", "t", "e">>

ProfileInputs ==
    { <<s_BgIN, s_Immediate>>, <<s_Hyd, s_1month>>, <<None, None>> }

\* tech_stack texts
s_Py_aws == <<"P", "y", ",", " ", "a", "w", "s">>
s_py == <<"p", "y">>
s_pyx_aws == <<"p", "y", "x", ",", ",", "a", "w", "s", " ">>
s_aws == <<"a", "w", "s">>

\* responsibilities and description texts
s_NLP == <<"N", "L", "P">>
s_Nlp_api == <<"N", "l", "p", " ", "a", "p", "i">>
s_api == <<"a", "p", "i">>
s_web == <<"w", "e", "b">>

\* start_date and end_date texts
d_2020_11_01 == <<"2", "0", "2", "0", "-", "1", "1", "-", "0", "1">>
d_2021_01_01 == <<"2", "0", "2", "1", "-", "0", "1", "-", "0", "1">>
d_2023_06_30 == <<"2", "0", "2", "3", "-", "0", "6", "-", "3", "0">>
d_2024_11_01 == <<"2", "0", "2", "4", "-", "1", "1", "-", "0", "1">>
d_2025_11_15 == <<"2", "0", "2", "5", "-", "1", "1", "-", "1", "5">>
s_None == <<"N", "o", "n", "e">>
s_soon == <<"s", "o", "o", "n">>

\* (responsibilities, description, tech_stack, start_date, end_date) given to
\* add_project
ProjectInputs ==
    { \* current project, 2191 days long
      <<s_NLP, <<>>, s_Py_aws, d_2020_11_01, None>>,
      \* 910 days, ended 41 months before Today, no text at all
      <<None, None, s_py, d_2021_01_01, d_2023_06_30>>,
      \* 730 days up to Today, the end date stored as the text "None", no tech_stack
      <<<<>>, s_Nlp_api, None, d_2024_11_01, s_None>>,
      \* start date that does not parse, ended 12 months before Today
      <<s_api, s_web, s_pyx_aws, s_soon, d_2025_11_15>> }

\* (responsibilities, description, tech_stack, start_date, end_date) given to
\* add_project, chosen for their dates
d_2027_01_01 == <<"2", "0", "2", "7", "-", "0", "1", "-", "0", "1">>

DatedProjectInputs ==
    { \* start date that does not parse, ended 351 days before Today, no
      \* tech_stack
      <<s_api, s_web, None, s_soon, d_2025_11_15>>,
      \* no start date, ends 61 days after Today
      <<s_api, s_web, s_py, None, d_2027_01_01>>,
      \* end date that does not parse, started 730 days before Today
      <<s_api, s_web, s_aws, d_2024_11_01, s_soon>>,
      \* starts 379 days after it ends, ended 24 months before Today
      <<s_api, s_web, s_aws, d_2025_11_15, d_2024_11_01>>,
      \* current project, 2191 days long
      <<s_NLP, <<>>, s_Py_aws, d_2020_11_01, None>>,
      \* 910 days, ended 41 months before Today
      <<s_NLP, <<>>, s_py, d_2021_01_01, d_2023_06_30>> }

\* techs: None and [] are both <<>> (the code only tests `if techs`)
s_Py == <<"P", "y">>
TechsInputs == { <<>>, <<s_py>>, <<s_Py, s_aws>> }

\* last_used_months=None
NoMonths == -1
LastUsedInputs == { NoMonths, 0, 12 }

s_blank == <<" ", " ">>
s_N == <<" ", "N">>
KeywordInputs == { s_blank, s_N }

s_Any == <<"A", "n", "y">>
s_any == <<"a", "n", "y">>
s_1M == <<"1", " ", "M">>
AvailabilityInputs == { s_Any, s_any, s_1M }

s_bg == <<" ", "b", "g", " ">>
LocationInputs == { s_blank, s_bg }


-----------------------------------------------------------------------------
(* search_candidates, for the query q and the tables of the current state *)

\* the rows of SELECT * FROM projects WHERE username = u
ProjectsOf(u) == { p \in BagToSet(projects) : p.username = u }

\* StartDate with the first day of the epoch, not today, when parsing raises
StartDate_EpochOnFailure(p) ==
    IF IsIsoDate(p.start_date) THEN ParseDate(p.start_date)
    ELSE [y |-> 1970, m |-> 1, d |-> 1]

\* s_dt: the parsed start date, today when parsing raises
StartDate(p) == IF IsIsoDate(p.start_date) THEN ParseDate(p.start_date) ELSE Today

\* e_dt: the parsed end date; a missing end date and the text "none" are today's
\* date, and so is an end date whose parsing raises
EndDate(p) ==
    IF Truthy(p.end_date) /\ Lower(Str(p.end_date)) # Lower(s_None)
    THEN (IF IsIsoDate(p.end_date) THEN ParseDate(p.end_date) ELSE Today)
    ELSE Today

\* ProjectDays without max(0, ...)
ProjectDays_Unclamped(p) == DayNumber(EndDate(p)) - DayNumber(StartDate(p))

\* max(0, (e_dt - s_dt).days)
ProjectDays(p) == Max(0, DayNumber(EndDate(p)) - DayNumber(StartDate(p)))

\* the sum of the days of the rows ps, each as often as the table holds it
RECURSIVE SumDays(_)
SumDays(ps) ==
    IF ps = {} THEN 0
    ELSE LET p == CHOOSE x \in ps : TRUE
         IN  CopiesIn(p, projects) * ProjectDays(p) + SumDays(ps \ {p})

\* total_days after the loop over the candidate's projects
TotalDays(u) == SumDays(ProjectsOf(u))

\* p_techs: the stripped, lower-cased, non-empty pieces of tech_stack
PTechs(p) ==
    LET pieces == Split(IF p.tech_stack = None THEN <<>> ELSE p.tech_stack)
    IN  { Lower(Strip(pieces[i])) : i \in { j \in 1..Len(pieces) : Strip(pieces[j]) # <<>> } }

\* what one project adds to match_techs: one for every t of techs in p_techs
ProjectMatches(p, techs) ==
    Cardinality({ i \in 1..Len(techs) : Lower(techs[i]) \in PTechs(p) })

RECURSIVE SumMatches(_, _)
SumMatches(ps, techs) ==
    IF ps = {} THEN 0
    ELSE LET p == CHOOSE x \in ps : TRUE
         IN  CopiesIn(p, projects) * ProjectMatches(p, techs)
                 + SumMatches(ps \ {p}, techs)

\* match_techs after the loop
MatchTechs(u, techs) == SumMatches(ProjectsOf(u), techs)

\* end_dt of the last-used check
LastUsedEnd(p) ==
    IF Truthy(p.end_date)
    THEN (IF IsIsoDate(p.end_date) THEN ParseDate(p.end_date) ELSE Today)
    ELSE Today

\* months_diff
MonthsDiff(p) == (Today.y - LastUsedEnd(p).y) * 12 + (Today.m - LastUsedEnd(p).m)

\* bool(last_used_months): None and 0 are falsy
MonthsSet(n) == n # NoMonths /\ n # 0

\* UsedRecent without the months_diff test
UsedRecent_AnyEntry(u, q) ==
    /\ q.techs # <<>>
    /\ MonthsSet(q.last_used_months)
    /\ \E p \in ProjectsOf(u) : ProjectMatches(p, q.techs) > 0

\* used_recent after the loop
UsedRecent(u, q) ==
    /\ q.techs # <<>>
    /\ MonthsSet(q.last_used_months)
    /\ \E p \in ProjectsOf(u) :
          /\ MonthsDiff(p) <= q.last_used_months
          /\ ProjectMatches(p, q.techs) > 0

\* AvailabilityPasses without .lower() on the query's side
AvailabilityPasses_CaseSensitive(row, availability) ==
    (Truthy(availability) /\ availability # s_Any)
        => /\ Truthy(row.availability)
           /\ StartsWith(Lower(Str(row.availability)), availability)

\* the availability filter lets the row through
AvailabilityPasses(row, availability) ==
    (Truthy(availability) /\ availability # s_Any)
        => /\ Truthy(row.availability)
           /\ StartsWith(Lower(Str(row.availability)), Lower(availability))

\* LocationPasses with the row's location tested against itself
LocationPasses_SelfCompare(row, location) ==
    (Truthy(location) /\ Strip(location) # <<>>)
        => /\ Truthy(row.location)
           /\ Contains(Lower(Str(row.location)), Lower(Strip(Str(row.location))))

\* the location filter lets the row through
LocationPasses(row, location) ==
    (Truthy(location) /\ Strip(location) # <<>>)
        => /\ Truthy(row.location)
           /\ Contains(Lower(Str(row.location)), Lower(Strip(location)))

\* TechsPass without the `match_techs == 0` rejection
TechsPass_NoMatchNeeded(u, q) ==
    (q.techs # <<>> /\ MonthsSet(q.last_used_months)) => UsedRecent(u, q)

\* the skill match acceptance rules let the candidate through
TechsPass(u, q) ==
    q.techs # <<>>
        => /\ MatchTechs(u, q.techs) # 0
           /\ MonthsSet(q.last_used_months) => UsedRecent(u, q)

\* the keyword occurs in the project's responsibilities or description
KeywordInProject(p, keyword) ==
    \/ Contains(Lower(Str(p.responsibilities)), Lower(Strip(keyword)))
    \/ Contains(Lower(Str(p.description)), Lower(Strip(keyword)))

\* the responsibilities keyword filter lets the candidate through
KeywordPasses(u, keyword) ==
    (Truthy(keyword) /\ Strip(keyword) # <<>>)
        => \E p \in ProjectsOf(u) : KeywordInProject(p, keyword)

\* the candidate reaches results.append
Passes(u, q) ==
    /\ AvailabilityPasses(candidates[u], q.availability)
    /\ LocationPasses(candidates[u], q.location)
    /\ TechsPass(u, q)
    /\ KeywordPasses(u, q.responsibilities_keyword)

\* MatchScore with the score cut to two decimals instead of rounded
MatchScore_Truncated(u, q) ==
    IF Len(q.techs) > 0
    THEN Min(100, (100 * MatchTechs(u, q.techs)) \div Len(q.techs))
    ELSE Min(100, (100 * TotalDays(u)) \div (5 * 365))

\* MatchScore without the min(1.0, ...) cap
MatchScore_NoCap(u, q) ==
    IF Len(q.techs) > 0
    THEN Round2(MatchTechs(u, q.techs), Len(q.techs))
    ELSE Round2(TotalDays(u), 5 * 365)

\* round(match_score, 2), in hundredths
MatchScore(u, q) ==
    LET total_req   == Len(q.techs)
        match_techs == MatchTechs(u, q.techs)
        total_days  == TotalDays(u)
    IN  IF total_req > 0
        THEN (IF match_techs >= total_req THEN 100
              ELSE Round2(match_techs, total_req))
        ELSE (IF total_days >= 5 * 365 THEN 100
              ELSE Round2(total_days, 5 * 365))

\* round(years, 2), in hundredths
YearsExperience(u) == Round2(TotalDays(u), 365)

\* the dict appended to results (full_name and email are not modelled)
ResultRow(u, q) ==
    [username         |-> u,
     location         |-> candidates[u].location,
     availability     |-> candidates[u].availability,
     years_experience |-> YearsExperience(u),
     match_score      |-> MatchScore(u, q)]

\* results, as a set: one row for every candidate that passes
Results(q) == { ResultRow(u, q) : u \in { v \in DOMAIN candidates : Passes(v, q) } }

\* rows is in descending order of match_score
Descending(rows) ==
    \A i \in 1..(Len(rows) - 1) : rows[i].match_score >= rows[i + 1].match_score

\* SortValues with ascending=True
SortValues_Ascending(rs) ==
    LET n == Cardinality(rs)
    IN  { rows \in [1..n -> rs] :
            /\ \A r \in rs : \E i \in 1..n : rows[i] = r
            /\ \A i \in 1..(n - 1) : rows[i].match_score <= rows[i + 1].match_score }

\* the orders sort_values(by="match_score", ascending=False) may leave the rows
\* in: the default sort is not stable, rows of equal score come in any order
SortValues(rs) ==
    LET n == Cardinality(rs)
    IN  { rows \in [1..n -> rs] :
            /\ \A r \in rs : \E i \in 1..n : rows[i] = r
            /\ Descending(rows) }

-----------------------------------------------------------------------------
(* The state machine *)

NoCall == [made |-> FALSE]
NoRet == [kind |-> "none", rows |-> <<>>]

\* st.session_state as main sets it when it has no logged_in key
LoggedOut == [logged_in |-> FALSE, username |-> None, role |-> None]

\* no form was submitted and no button pressed yet
NoRun == [choice |-> "Home", message |-> ""]

\* search_candidates(): every parameter at its default
DefaultQuery ==
    [techs |-> <<>>, last_used_months |-> NoMonths,
     responsibilities_keyword |-> None, availability |-> None, location |-> None]

Queries ==
    [techs : TechsInputs,
     last_used_months : LastUsedInputs,
     responsibilities_keyword : KeywordInputs,
     availability : AvailabilityInputs,
     location : LocationInputs] \cup {DefaultQuery}

\* init_db on a new database file: the tables exist and are empty
Init ==
    /\ candidates = << >>
    /\ projects = EmptyBag
    /\ call = NoCall
    /\ ret = NoRet
    /\ users = {}
    /\ session_state = LoggedOut
    /\ now = 0
    /\ run = NoRun

\* upsert_candidate_profile(username, ..., location, ..., availability, ...)
UpsertCandidateProfile ==
    /\ ret.kind = "none"
    /\ \E u \in Usernames, prof \in ProfileInputs :
        /\ candidates' =
              [v \in (DOMAIN candidates) \cup {u} |->
                  IF v = u THEN [location |-> prof[1], availability |-> prof[2]]
                  ELSE candidates[v]]
        /\ UNCHANGED <<projects, call, ret>>
    /\ UNCHANGED <<users, session_state, now, run>>

\* add_project(username, ..., responsibilities, description, tech_stack,
\*             start_date, end_date)
AddProject ==
    /\ ret.kind = "none"
    /\ BagCardinality(projects) < MaxProjects
    /\ \E u \in Usernames, inp \in ProjectInputs :
        /\ projects' = projects (+) SetToBag({
              [username         |-> u,
               responsibilities |-> inp[1],
               description      |-> inp[2],
               tech_stack       |-> inp[3],
               start_date       |-> inp[4],
               end_date         |-> inp[5]]})
        /\ UNCHANGED <<call, ret>>
        /\ UNCHANGED candidates
    /\ UNCHANGED <<users, session_state, now, run>>

\* search_candidates(techs, last_used_months, responsibilities_keyword,
\*                   availability, location).
\* The frame built from an empty results list has no column, and
\* sort_values(by="match_score") of it raises KeyError; otherwise the sorted
\* frame is returned.
SearchCandidates ==
    /\ ret.kind = "none"
    /\ \E q \in Queries :
        /\ LET results == Results(q)
           IN  IF results = {}
               THEN ret' = [kind |-> "raised", rows |-> <<>>]
               ELSE \E rows \in SortValues(results) :
                       ret' = [kind |-> "returned", rows |-> rows]
        /\ call' = [made |-> TRUE, q |-> q]
        /\ UNCHANGED <<candidates, projects>>
    /\ UNCHANGED <<users, session_state, now, run>>

\* the script run of the Search button ends: the frame (or the exception) is
\* shown and goes out of scope
EndOfRun ==
    /\ ret.kind # "none"
    /\ call' = NoCall
    /\ ret' = NoRet
    /\ UNCHANGED <<candidates, projects>>
    /\ UNCHANGED <<users, session_state, now, run>>

Next == UpsertCandidateProfile \/ AddProject \/ SearchCandidates \/ EndOfRun

Spec == Init /\ [][Next]_vars

-----------------------------------------------------------------------------
(* The search over project entries of every kind of date *)

\* the database after ann and raj have saved their profiles
TenureInit ==
    /\ candidates = [u \in Usernames |->
                        IF u = "ann"
                        THEN [location |-> s_BgIN, availability |-> s_Immediate]
                        ELSE [location |-> s_Hyd, availability |-> s_1month]]
    /\ projects = EmptyBag
    /\ call = NoCall
    /\ ret = NoRet
    /\ users = {}
    /\ session_state = LoggedOut
    /\ now = 0
    /\ run = NoRun

\* add_project(username, ..., responsibilities, description, tech_stack,
\*             start_date, end_date), with the values of DatedProjectInputs
AddDatedProject ==
    /\ ret.kind = "none"
    /\ BagCardinality(projects) < MaxDatedProjects
    /\ \E u \in Usernames, inp \in DatedProjectInputs :
        /\ projects' = projects (+) SetToBag({
              [username         |-> u,
               responsibilities |-> inp[1],
               description      |-> inp[2],
               tech_stack       |-> inp[3],
               start_date       |-> inp[4],
               end_date         |-> inp[5]]})
        /\ UNCHANGED <<call, ret>>
        /\ UNCHANGED candidates
    /\ UNCHANGED <<users, session_state, now, run>>

TenureNext == AddDatedProject \/ SearchCandidates \/ EndOfRun

TenureSpec == TenureInit /\ [][TenureNext]_vars


-----------------------------------------------------------------------------
(* The accounts, the session and the script runs of main *)

\* hash_password(pw): the SHA-256 hex digest of the password, here the password
\* under the digest's name; as with the digest, two passwords of the model
\* never have the same hash
HashPassword(pw) == <<"sha256">> \o pw

s_recruiter == <<"r", "e", "c", "r", "u", "i", "t", "e", "r">>
s_recruiter123 == <<"r", "e", "c", "r", "u", "i", "t", "e", "r", "1", "2", "3">>
s_candidate == <<"c", "a", "n", "d", "i", "d", "a", "t", "e">>
s_candidate123 == <<"c", "a", "n", "d", "i", "d", "a", "t", "e", "1", "2", "3">>
s_rahul == <<"r", "a", "h", "u", "l">>
s_rahul123 == <<"r", "a", "h", "u", "l", "1", "2", "3">>
s_Candidate == <<"C", "a", "n", "d", "i", "d", "a", "t", "e">>
s_Recruiter == <<"R", "e", "c", "r", "u", "i", "t", "e", "r">>

\* the users rows seed_demo creates (created at time 0)
SeedUsers ==
    { [username |-> s_recruiter, password_hash |-> HashPassword(s_recruiter123),
       role |-> s_Recruiter, created_at |-> 0],
      [username |-> s_candidate, password_hash |-> HashPassword(s_candidate123),
       role |-> s_Candidate, created_at |-> 0],
      [username |-> s_rahul, password_hash |-> HashPassword(s_rahul123),
       role |-> s_Candidate, created_at |-> 0] }

s_Bengaluru == <<"B", "e", "n", "g", "a", "l", "u", "r", "u">>
s_Hyderabad == <<"H", "y", "d", "e", "r", "a", "b", "a", "d">>

\* the candidates rows seed_demo creates
SeedCandidates ==
    [u \in {s_candidate, s_rahul} |->
        IF u = s_candidate
        THEN [location |-> s_Bengaluru, availability |-> s_1month]
        ELSE [location |-> s_Hyderabad, availability |-> s_Immediate]]

s_Built_ML == <<"B", "u", "i", "l", "t", " ", "M", "L", " ", "p", "i", "p", "e", "l", "i", "n", "e", "s", " ", "a", "n", "d", " ", "m", "o", "d", "e", "l", "s">>
s_End_to_end == <<"E", "n", "d", "-", "t", "o", "-", "e", "n", "d", " ", "M", "L", " ", "p", "l", "a", "t", "f", "o", "r", "m">>
s_python_pandas == <<"p", "y", "t", "h", "o", "n", ",", "p", "a", "n", "d", "a", "s", ",", "a", "w", "s", ",", "n", "l", "p">>
s_Streaming == <<"S", "t", "r", "e", "a", "m", "i", "n", "g", " ", "i", "n", "g", "e", "s", "t", "i", "o", "n">>
s_Kafka_based == <<"K", "a", "f", "k", "a", "-", "b", "a", "s", "e", "d", " ", "p", "i", "p", "e", "l", "i", "n", "e", "s">>
s_python_spark == <<"p", "y", "t", "h", "o", "n", ",", "s", "p", "a", "r", "k", ",", "k", "a", "f", "k", "a">>
s_Frontend == <<"F", "r", "o", "n", "t", "e", "n", "d", " ", "&", " ", "m", "i", "c", "r", "o", "-", "f", "r", "o", "n", "t", "e", "n", "d", "s">>
s_React_based == <<"R", "e", "a", "c", "t", "-", "b", "a", "s", "e", "d", " ", "s", "t", "o", "r", "e", "f", "r", "o", "n", "t">>
s_react_node == <<"r", "e", "a", "c", "t", ",", "n", "o", "d", "e", ",", "a", "w", "s", ",", "k", "u", "b", "e", "r", "n", "e", "t", "e", "s">>
d_2019_01_01 == <<"2", "0", "1", "9", "-", "0", "1", "-", "0", "1">>
d_2020_12_31 == <<"2", "0", "2", "0", "-", "1", "2", "-", "3", "1">>
d_2022_01_01 == <<"2", "0", "2", "2", "-", "0", "1", "-", "0", "1">>

\* the projects rows seed_demo creates
SeedProjects ==
    SetToBag({
        [username |-> s_candidate, responsibilities |-> s_Built_ML,
         description |-> s_End_to_end, tech_stack |-> s_python_pandas,
         start_date |-> d_2021_01_01, end_date |-> d_2023_06_30],
        [username |-> s_candidate, responsibilities |-> s_Streaming,
         description |-> s_Kafka_based, tech_stack |-> s_python_spark,
         start_date |-> d_2019_01_01, end_date |-> d_2020_12_31],
        [username |-> s_rahul, responsibilities |-> s_Frontend,
         description |-> s_React_based, tech_stack |-> s_react_node,
         start_date |-> d_2022_01_01, end_date |-> None] })

\* the values typed into the Register and Login forms
s_ann == <<"a", "n", "n">>
s_ann123 == <<"a", "n", "n", "1", "2", "3">>
RegisterUsernames == { s_ann, s_rahul }
LoginUsernames == { s_ann, s_rahul, s_recruiter }
Passwords == { s_ann123, s_rahul123, s_recruiter123 }
Roles == { s_Candidate, s_Recruiter }

\* the values of the Dashboard's widgets
s_Not_open == <<"N", "o", "t", " ", "o", "p", "e", "n">>
DashboardProfileInputs == { <<s_BgIN, s_Immediate>>, <<s_Hyd, s_1month>> }
DashboardProjectInputs == { <<s_NLP, <<>>, s_Py_aws, d_2020_11_01, None>> }
s_python_aws == <<"p", "y", "t", "h", "o", "n", ",", "a", "w", "s">>
TechQInputs == { s_python_aws, <<>> }
DashboardLastUsedInputs == { 0, 12 }
AvailInputs == { s_Any, s_Immediate }

\* the row of the users table with this username exists (the PRIMARY KEY of
\* the table makes a second INSERT raise IntegrityError)
UsernameExists(username) == \E r \in users : r.username = username

\* CreateUser without the PRIMARY KEY: the INSERT always adds its row
CreateUser_NoPrimaryKey(username, password, role) ==
    users \cup { [username |-> username, password_hash |-> HashPassword(password),
                  role |-> role, created_at |-> now] }

\* the users table after create_user(username, password, role)
CreateUser(username, password, role) ==
    IF UsernameExists(username) THEN users
    ELSE users \cup { [username |-> username,
                       password_hash |-> HashPassword(password),
                       role |-> role, created_at |-> now] }

\* VerifyUser without the password_hash condition
VerifyUser_AnyPassword(username, password) ==
    LET found == { r \in users : r.username = username }
    IN  IF found = {} THEN None ELSE (CHOOSE r \in found : TRUE).role

\* verify_user(username, password): the role of the row found, or None
VerifyUser(username, password) ==
    LET found == { r \in users : /\ r.username = username
                                 /\ r.password_hash = HashPassword(password) }
    IN  IF found = {} THEN None ELSE (CHOOSE r \in found : TRUE).role

\* the candidates table after upsert_candidate_profile(username, ...,
\* location, ..., availability, ...)
Upserted(username, location, availability) ==
    [v \in (DOMAIN candidates) \cup {username} |->
        IF v = username THEN [location |-> location, availability |-> availability]
        ELSE candidates[v]]

\* the state the first script run leaves: init_db, seed_demo and the defaults
\* of st.session_state
SessionInit ==
    /\ candidates = SeedCandidates
    /\ projects = SeedProjects
    /\ call = NoCall
    /\ ret = NoRet
    /\ users = SeedUsers
    /\ session_state = LoggedOut
    /\ now = 1
    /\ run = NoRun

\* choice == "Register", the form submitted.  The menu offers Register while
\* nobody is logged in.
Register ==
    /\ ret.kind = "none"
    /\ ~session_state.logged_in
    /\ now <= MaxRegistrations
    /\ \E username \in RegisterUsernames, password \in Passwords, role \in Roles :
        LET ok == ~UsernameExists(username)
        IN  /\ users' = CreateUser(username, password, role)
            /\ candidates' =
                  IF ok /\ role = s_Candidate
                  THEN Upserted(username, <<>>, s_Not_open)
                  ELSE candidates
            /\ run' = [choice |-> "Register", username |-> username,
                       password |-> password, role |-> role,
                       message |-> IF ok THEN "Account created. Please Login."
                                   ELSE "Username already exists."]
    /\ now' = now + 1
    /\ UNCHANGED <<projects, call, ret, session_state>>

\* choice == "Login", the form submitted.  The menu offers Login while nobody
\* is logged in.
Login ==
    /\ ret.kind = "none"
    /\ ~session_state.logged_in
    /\ \E username \in LoginUsernames, password \in Passwords :
        LET role == VerifyUser(username, password)
        IN  /\ session_state' =
                  IF Truthy(role)
                  THEN [logged_in |-> TRUE, username |-> username, role |-> role]
                  ELSE session_state
            /\ run' = [choice |-> "Login", username |-> username,
                       password |-> password,
                       message |-> IF Truthy(role) THEN "Welcome"
                                   ELSE "Invalid credentials. (Try demo accounts)"]
    /\ UNCHANGED <<candidates, projects, call, ret, users, now>>

\* choice == "Logout".  The menu offers Logout while somebody is logged in.
Logout ==
    /\ ret.kind = "none"
    /\ session_state.logged_in
    /\ session_state' = [logged_in |-> FALSE, username |-> None, role |-> None]
    /\ run' = [choice |-> "Logout", message |-> "Logged out."]
    /\ UNCHANGED <<candidates, projects, call, ret, users, now>>

\* choice == "Dashboard", role Candidate, the Save profile button
SaveProfile ==
    /\ ret.kind = "none"
    /\ session_state.logged_in
    /\ session_state.role = s_Candidate
    /\ \E prof \in DashboardProfileInputs :
        candidates' = Upserted(session_state.username, prof[1], prof[2])
    /\ run' = [choice |-> "Dashboard", message |-> "Profile saved."]
    /\ UNCHANGED <<projects, call, ret, users, session_state, now>>

\* choice == "Dashboard", role Candidate, the Add project form submitted
DashboardAddProject ==
    /\ ret.kind = "none"
    /\ session_state.logged_in
    /\ session_state.role = s_Candidate
    /\ BagCardinality(projects) < BagCardinality(SeedProjects) + MaxAddedProjects
    /\ \E inp \in DashboardProjectInputs :
        projects' = projects (+) SetToBag({
            [username         |-> session_state.username,
             responsibilities |-> inp[1],
             description      |-> inp[2],
             tech_stack       |-> inp[3],
             start_date       |-> inp[4],
             end_date         |-> inp[5]]})
    /\ run' = [choice |-> "Dashboard", message |-> "Project added."]
    /\ UNCHANGED <<candidates, call, ret, users, session_state, now>>

\* t.strip() is not empty
NonBlank(t) == Strip(t) # <<>>

\* [t.strip().lower() for t in tech_q.split(",") if t.strip()]
DashboardTechs(tech_q) ==
    LET kept == SelectSeq(Split(tech_q), NonBlank)
    IN  [i \in 1..Len(kept) |-> Lower(Strip(kept[i]))]

\* choice == "Dashboard", role Recruiter, the Search button (the Responsibilities
\* keyword and the Location are left empty)
DashboardSearch ==
    /\ ret.kind = "none"
    /\ session_state.logged_in
    /\ session_state.role = s_Recruiter
    /\ \E tech_q \in TechQInputs, last_used_months \in DashboardLastUsedInputs,
          avail \in AvailInputs :
        LET q == [techs |-> DashboardTechs(tech_q),
                  last_used_months |->
                      IF last_used_months > 0 THEN last_used_months ELSE NoMonths,
                  responsibilities_keyword |-> <<>>,
                  availability |-> avail,
                  location |-> <<>>]
            results == Results(q)
        IN  /\ IF results = {}
               THEN /\ ret' = [kind |-> "raised", rows |-> <<>>]
                    /\ run' = [choice |-> "Dashboard", message |-> "KeyError"]
               ELSE /\ \E rows \in SortValues(results) :
                          ret' = [kind |-> "returned", rows |-> rows]
                    /\ run' = [choice |-> "Dashboard", message |-> "Found candidates"]
            /\ call' = [made |-> TRUE, q |-> q]
    /\ UNCHANGED <<candidates, projects, users, session_state, now>>

SessionNext ==
    \/ Register
    \/ Login
    \/ Logout
    \/ SaveProfile
    \/ DashboardAddProject
    \/ DashboardSearch
    \/ EndOfRun

SessionSpec == SessionInit /\ [][SessionNext]_vars

-----------------------------------------------------------------------------
(* What the properties speak about *)

\* search_candidates returned a frame
Returned == ret.kind = "returned"

\* the rows of the returned frame
Rows == { ret.rows[i] : i \in 1..Len(ret.rows) }

\* the project entries of candidate u
Entries(u) == { p \in BagToSet(projects) : p.username = u }

\* the tag t is, whatever its case, one of the comma-separated tokens of the
\* entry's tech_stack
TagInEntry(p, t) ==
    /\ p.tech_stack # None
    /\ \E i \in 1..Len(Split(p.tech_stack)) :
          /\ Strip(Split(p.tech_stack)[i]) # <<>>
          /\ Lower(Strip(Split(p.tech_stack)[i])) = Lower(t)

\* what search_candidates returned: nothing when it raised
ReturnedRows == IF Returned THEN Rows ELSE {}

\* the effective end date of an entry: end_date, today when it is absent or
\* cannot be parsed
EffectiveEnd(p) == IF IsIsoDate(p.end_date) THEN ParseDate(p.end_date) ELSE Today

\* 12 * (today.year - end.year) + (today.month - end.month)
MonthsAgo(p) == 12 * (Today.y - EffectiveEnd(p).y) + (Today.m - EffectiveEnd(p).m)

\* v is a text in which k occurs, whatever the case
TextHas(v, k) == v # None /\ Contains(Lower(v), Lower(k))

\* the required tags (positions in techs) found in at least one entry of u
TagsFound(u, techs) ==
    { i \in 1..Len(techs) : \E p \in Entries(u) : TagInEntry(p, techs[i]) }

-----------------------------------------------------------------------------
(* C1 *)

\* C1 as stated: with a non-empty required-tag list, every returned candidate
\* has every required tag in the tech_stack of at least one of its entries.
C1_EveryRequiredTagFound ==
    (Returned /\ call.q.techs # <<>>)
        => \A r \in Rows :
              TagsFound(r.username, call.q.techs) = 1..Len(call.q.techs)

\* C1 (amended): with a non-empty required-tag list, every returned candidate
\* has at least one required tag in the tech_stack of at least one of its
\* entries; a candidate with none of the required tags is never returned.
C1_SomeRequiredTagFound ==
    (Returned /\ call.q.techs # <<>>)
        => \A r \in Rows : TagsFound(r.username, call.q.techs) # {}

\* two tags are required and a returned candidate has one of them only
C1_Witness ==
    /\ Returned
    /\ Len(call.q.techs) = 2
    /\ \E r \in Rows : Cardinality(TagsFound(r.username, call.q.techs)) = 1

-----------------------------------------------------------------------------
(* C2 *)

\* C2 as stated: with a non-empty required-tag list, match_score (to the two
\* decimals the row keeps) is the number of required tags found in at least
\* one entry, divided by the number of required tags; a tag found in several
\* entries counts once.
C2_ScoreIsShareOfTagsFound ==
    (Returned /\ call.q.techs # <<>>)
        => \A r \in Rows :
              r.match_score =
                  Round2(Cardinality(TagsFound(r.username, call.q.techs)),
                         Len(call.q.techs))

-----------------------------------------------------------------------------
(* C3 *)

\* C3 as stated: search_candidates never raises; when no candidate is left it
\* returns an empty frame.
C3_NeverRaises == ret.kind # "raised"

-----------------------------------------------------------------------------
(* C4 *)

\* C4: every match_score of a returned frame lies in [0.0, 1.0] (0..100
\* hundredths), with or without required tags.
C4_ScoreInUnitInterval ==
    Returned => \A r \in Rows : r.match_score >= 0 /\ r.match_score <= 100

\* a returned candidate whose tag matches outnumber the required tags, so that
\* the cap acts
C4_Witness ==
    /\ Returned
    /\ call.q.techs # <<>>
    /\ \E r \in Rows : MatchTechs(r.username, call.q.techs) > Len(call.q.techs)

-----------------------------------------------------------------------------
(* C5 *)

\* C5: the returned rows are in descending order of match_score: each row's
\* score is at least the next row's.
C5_SortedDescending ==
    Returned
        => \A i \in 1..(Len(ret.rows) - 1) :
              ret.rows[i].match_score >= ret.rows[i + 1].match_score

\* a returned frame of two rows of different scores
C5_Witness ==
    /\ Returned
    /\ Len(ret.rows) = 2
    /\ ret.rows[1].match_score > ret.rows[2].match_score


-----------------------------------------------------------------------------
(* C6 *)

\* C6: with last_used_months set (a non-zero number: the code takes 0, like
\* None, for "not set") and a non-empty required-tag list, every returned
\* candidate has a required tag in an entry whose effective end date is at most
\* last_used_months months ago; with an empty required-tag list the result is
\* the one the same call gives without last_used_months.
C6_RecencyWindow ==
    call.made
        => /\ (call.q.techs # <<>> /\ call.q.last_used_months \notin {NoMonths, 0})
                => \A r \in ReturnedRows :
                      \E p \in Entries(r.username) :
                          /\ \E i \in 1..Len(call.q.techs) : TagInEntry(p, call.q.techs[i])
                          /\ MonthsAgo(p) <= call.q.last_used_months
           /\ call.q.techs = <<>>
                => ReturnedRows = Results([call.q EXCEPT !.last_used_months = NoMonths])

\* a 12 month window, another candidate returned, and a candidate left out
\* whose only entries with a required tag ended more than 12 months ago (every
\* other filter lets it through)
C6_Witness ==
    /\ Returned
    /\ call.q.techs # <<>>
    /\ call.q.last_used_months = 12
    /\ \E u \in DOMAIN candidates :
          /\ \A r \in Rows : r.username # u
          /\ TagsFound(u, call.q.techs) # {}
          /\ \A p \in Entries(u) : MonthsAgo(p) > 12
          /\ Passes(u, [call.q EXCEPT !.last_used_months = NoMonths])

-----------------------------------------------------------------------------
(* C7 *)

\* the rows the call returns when its availability filter acts, with `any` as
\* the value that switches the filter off
AvailabilityFilterOutcome(any) ==
    LET a    == call.q.availability
        rows == Results([call.q EXCEPT !.availability = None])
    IN  IF Truthy(a) /\ a # any
        THEN ReturnedRows =
                 { r \in rows : /\ r.availability # None
                                /\ StartsWith(Lower(r.availability), Lower(a)) }
        ELSE ReturnedRows = rows

\* C7 as stated: the availability filter acts when the query availability is
\* set and is not "any"; then exactly the candidates whose availability starts,
\* whatever the case, with the query's are kept; otherwise none is dropped.
C7_AnyLowerCase == call.made => AvailabilityFilterOutcome(s_any)

\* C7 (amended): the availability filter acts when the query availability is
\* set and is not the exact text "Any" (this test is case-sensitive); then
\* exactly the candidates whose availability starts, whatever the case, with
\* the query's are kept, one with no availability value is dropped; otherwise
\* none is dropped.
C7_AvailabilityFilter == call.made => AvailabilityFilterOutcome(s_Any)

\* query "1 M": a candidate with "1 month" is returned, one with another or no
\* availability is in the table and not returned
C7_Witness ==
    /\ Returned
    /\ call.q.availability = s_1M
    /\ \E r \in Rows : r.availability = s_1month
    /\ \E u \in DOMAIN candidates :
          /\ candidates[u].availability # s_1month
          /\ \A r \in Rows : r.username # u

-----------------------------------------------------------------------------
(* C8 *)

\* the rows the call returns when its location filter tests the text `needle`
LocationFilterOutcome(needle) ==
    LET rows == Results([call.q EXCEPT !.location = None])
    IN  IF call.q.location # None /\ Strip(call.q.location) # <<>>
        THEN ReturnedRows = { r \in rows : TextHas(r.location, needle) }
        ELSE ReturnedRows = rows

\* C8 as stated: with a non-blank query location, exactly the candidates in
\* whose location the query string occurs, whatever the case, are kept; an
\* empty or blank query location drops no candidate.
C8_QueryStringAsGiven == call.made => LocationFilterOutcome(call.q.location)

\* C8 (amended): with a non-blank query location, exactly the candidates in
\* whose location the query string, stripped of leading and trailing blanks,
\* occurs, whatever the case, are kept; an empty or blank query location drops
\* no candidate.
C8_LocationFilter == call.made => LocationFilterOutcome(Strip(call.q.location))

\* query " bg ": a candidate at "Bg, IN" is returned, one at another or at no
\* location is in the table and not returned
C8_Witness ==
    /\ Returned
    /\ call.q.location = s_bg
    /\ \E r \in Rows : r.location = s_BgIN
    /\ \E u \in DOMAIN candidates :
          /\ candidates[u].location # s_BgIN
          /\ \A r \in Rows : r.username # u

-----------------------------------------------------------------------------
(* C9 *)

\* C9 as stated: with a non-blank keyword, every returned candidate has an
\* entry in whose responsibilities text or description text the keyword (taken
\* without its leading and trailing blanks) occurs, whatever the case; an entry
\* without a text has no text for the keyword to occur in.
C9_KeywordInSomeEntry ==
    (call.made /\ call.q.responsibilities_keyword # None
               /\ Strip(call.q.responsibilities_keyword) # <<>>)
        => \A r \in ReturnedRows :
              \E p \in Entries(r.username) :
                  \/ TextHas(p.responsibilities, Strip(call.q.responsibilities_keyword))
                  \/ TextHas(p.description, Strip(call.q.responsibilities_keyword))

-----------------------------------------------------------------------------
(* C10 *)

\* C10 as stated: with an empty required-tag list, match_score is exactly
\* min(1.0, total_days / 365 / 5.0).
C10_ExactTenureScore ==
    (Returned /\ call.q.techs = <<>>)
        => \A r \in Rows :
              (5 * 365) * r.match_score
                  = 100 * Min(TotalDays(r.username), 5 * 365)

\* C10 (amended): with an empty required-tag list, match_score is
\* min(1.0, total_days / 365 / 5.0) rounded to two decimals (the nearest
\* hundredth); and when no filter is set, a candidate without entries is
\* returned with score 0.
C10_TenureScore ==
    (call.made /\ call.q.techs = <<>>)
        => /\ \A r \in ReturnedRows :
                 LET exact == 100 * Min(TotalDays(r.username), 5 * 365)
                     got   == (5 * 365) * r.match_score
                 IN  /\ 2 * (got - exact) <= 5 * 365
                     /\ 2 * (exact - got) <= 5 * 365
           /\ call.q = DefaultQuery
                 => \A u \in DOMAIN candidates :
                       Entries(u) = {}
                           => \E r \in ReturnedRows : r.username = u /\ r.match_score = 0

\* no filter: a candidate with 2191 days scores 1.0, one with 730 days 0.4
C10_Witness ==
    /\ Returned
    /\ call.q = DefaultQuery
    /\ \E r \in Rows : TotalDays(r.username) = 2191 /\ r.match_score = 100
    /\ \E r \in Rows : TotalDays(r.username) = 730 /\ r.match_score = 40

-----------------------------------------------------------------------------
(* C11 *)

\* the effective start date of an entry: start_date, today when it is absent or
\* cannot be parsed
EffectiveStart(p) ==
    IF IsIsoDate(p.start_date) THEN ParseDate(p.start_date) ELSE Today

\* max(0, effective end - effective start) in days
EntryDays(p) == Max(0, DayNumber(EffectiveEnd(p)) - DayNumber(EffectiveStart(p)))

\* the sum of EntryDays over the entries ps, an entry stored n times counted n
\* times
RECURSIVE SumEntryDays(_)
SumEntryDays(ps) ==
    IF ps = {} THEN 0
    ELSE LET p == CHOOSE x \in ps : TRUE
         IN  CopiesIn(p, projects) * EntryDays(p) + SumEntryDays(ps \ {p})

\* the summed tenure of candidate u
TenureDays(u) == SumEntryDays(Entries(u))

\* the start date of the entry is absent or cannot be parsed
MalformedStart(p) == ~IsIsoDate(p.start_date)

\* the end date of the entry is absent or cannot be parsed
MalformedEnd(p) == ~IsIsoDate(p.end_date)

\* the usernames of the returned rows
ReturnedUsers == { r.username : r \in ReturnedRows }

\* C11: an absent or unparseable start_date or end_date counts as today and
\* does not fail the search.  (1) The years of every returned candidate are
\* those of its tenure with today in the place of every such date; (2) a
\* candidate all of whose entries have a malformed start date and an end date
\* that is today or earlier has 0 years; (3) in the recency check an entry with
\* a malformed end date ended today, so a candidate with a required tag in such
\* an entry is returned whenever the same call without last_used_months returns
\* it; (4) whatever the dates, the call raises only when no candidate passes the
\* filters, and with no filter set every candidate is returned.
C11_MalformedDateIsToday ==
    call.made
        => /\ \A r \in ReturnedRows :
                 r.years_experience = Round2(TenureDays(r.username), 365)
           /\ \A r \in ReturnedRows :
                 (\A p \in Entries(r.username) :
                      /\ MalformedStart(p)
                      /\ DayNumber(EffectiveEnd(p)) <= DayNumber(Today))
                     => r.years_experience = 0
           /\ (call.q.techs # <<>> /\ call.q.last_used_months \notin {NoMonths, 0})
                 => \A u \in DOMAIN candidates :
                       ( /\ Passes(u, [call.q EXCEPT !.last_used_months = NoMonths])
                         /\ \E p \in Entries(u) :
                               /\ MalformedEnd(p)
                               /\ \E i \in 1..Len(call.q.techs) :
                                     TagInEntry(p, call.q.techs[i]) )
                           => u \in ReturnedUsers
           /\ ret.kind = "raised" => \A u \in DOMAIN candidates : ~Passes(u, call.q)
           /\ call.q = DefaultQuery => ReturnedUsers = DOMAIN candidates

\* a 12 month window: a returned candidate has an entry whose start date does
\* not parse and that ended in the past, and an entry whose end date does not
\* parse, the only one of its entries with a required tag
C11_Witness ==
    /\ Returned
    /\ call.q.techs # <<>>
    /\ call.q.last_used_months = 12
    /\ \E r \in Rows :
          /\ \E p \in Entries(r.username) :
                /\ p.start_date = s_soon
                /\ DayNumber(EffectiveEnd(p)) < DayNumber(Today)
          /\ \E p \in Entries(r.username) : p.end_date = s_soon
          /\ \A p \in Entries(r.username) :
                (\E i \in 1..Len(call.q.techs) : TagInEntry(p, call.q.techs[i]))
                    => p.end_date = s_soon

-----------------------------------------------------------------------------
(* C12 *)

\* C12 as stated: years_experience is total_days / 365, where total_days is
\* the sum over the candidate's entries of max(0, effective end - start) in
\* days.
C12_ExactYears ==
    Returned
        => \A r \in Rows : 365 * r.years_experience = 100 * TenureDays(r.username)

\* C12 (amended): years_experience is total_days / 365 rounded to two decimals
\* (the nearest hundredth), where total_days is the sum over the candidate's
\* entries of max(0, effective end - start) in days: the effective end is
\* today when end_date is null, an entry that starts after it ends adds 0, and
\* every entry adds its days in full, whether or not it overlaps another.
C12_TenureAccumulation ==
    call.made
        => \A r \in ReturnedRows :
              LET exact == 100 * TenureDays(r.username)
                  got   == 365 * r.years_experience
              IN  /\ 2 * (got - exact) <= 365
                  /\ 2 * (exact - got) <= 365

\* the entries p1 and p2 have days in common
Overlap(p1, p2) ==
    /\ DayNumber(EffectiveStart(p1)) < DayNumber(EffectiveEnd(p2))
    /\ DayNumber(EffectiveStart(p2)) < DayNumber(EffectiveEnd(p1))

\* a returned candidate with an entry that starts after it ends and two
\* entries that overlap, whose years are those of the two overlapping entries
\* in full
C12_Witness ==
    /\ Returned
    /\ \E r \in Rows :
          /\ \E p \in Entries(r.username) :
                /\ IsIsoDate(p.start_date) /\ IsIsoDate(p.end_date)
                /\ DayNumber(ParseDate(p.start_date)) > DayNumber(ParseDate(p.end_date))
          /\ \E p1, p2 \in Entries(r.username) :
                /\ p1 # p2
                /\ Overlap(p1, p2)
                /\ r.years_experience = Round2(EntryDays(p1) + EntryDays(p2), 365)

-----------------------------------------------------------------------------
(* C13 *)

\* a row of the users table has this username, this role and the hash of this
\* password
RowMatches(table, username, password, role) ==
    \E r \in table : /\ r.username = username
                     /\ r.role = role
                     /\ r.password_hash = HashPassword(password)

\* the session is consistent with the accounts
SessionConsistent ==
    /\ session_state.logged_in = FALSE
          <=> (session_state.username = None /\ session_state.role = None)
    /\ session_state.logged_in
          => \E r \in users : /\ r.username = session_state.username
                              /\ r.role = session_state.role

\* what a step may do to the session
SessionStep ==
    \* somebody is logged in by a Login whose password has the hash of the
    \* users row of the username typed, and gets that row's role
    /\ (~session_state.logged_in /\ session_state'.logged_in)
          => /\ run'.choice = "Login"
             /\ session_state'.username = run'.username
             /\ RowMatches(users', run'.username, run'.password, session_state'.role)
    \* a Login succeeds exactly when the credentials are those of a users row
    /\ (run'.choice = "Login" /\ run' # run)
          => (run'.message = "Welcome"
                 <=> \E role \in Roles :
                        RowMatches(users, run'.username, run'.password, role))
    \* a failed Login changes nothing of the session
    /\ (run'.choice = "Login" /\ run'.message # "Welcome")
          => session_state' = session_state
    \* the Dashboard's actions act while somebody is logged in only
    /\ ( \/ run'.choice = "Dashboard" /\ run' # run
         \/ projects' # projects
         \/ candidates' # candidates /\ run'.choice # "Register"
         \/ call'.made /\ ~call.made )
          => session_state.logged_in /\ session_state'.logged_in

\* C13: at every point of a session of Register, Login and Logout actions,
\* logged_in is False exactly when username and role are both None, and while
\* logged_in is True (username, role) is a row of the users table, the one
\* whose password hash matched the password submitted at login; a failed login
\* leaves logged_in, username and role as they were; the Dashboard's actions
\* act only while logged_in is True.
C13_SessionInvariant == []SessionConsistent /\ [][SessionStep]_vars

\* ann, registered in this session, is logged in by the Login just submitted
C13_Witness ==
    /\ run.choice = "Login"
    /\ session_state.logged_in
    /\ session_state.username = s_ann
    /\ \E r \in users : r.username = s_ann /\ r.created_at > 0

-----------------------------------------------------------------------------
(* C14 *)

\* no two rows of the users table have the same username
OneRowPerUsername ==
    \A r1, r2 \in users : r1.username = r2.username => r1 = r2

\* what a step may do to the users table
UsersStep ==
    \* a row once in the table stays as it is
    /\ \A r \in users : r \in users'
    \* only a Register adds a row, and one row at most
    /\ users' # users
          => /\ run'.choice = "Register"
             /\ now' = now + 1
             /\ ~UsernameExists(run'.username)
             /\ users' = users \cup
                   { [username |-> run'.username,
                      password_hash |-> HashPassword(run'.password),
                      role |-> run'.role, created_at |-> now] }
    \* a Register of a username that exists is rejected and leaves the users
    \* table and the candidates table as they were
    /\ (now' # now /\ UsernameExists(run'.username))
          => /\ run'.message = "Username already exists."
             /\ users' = users
             /\ candidates' = candidates

\* C14: registering a username that exists is rejected (create_user returns
\* False, the form shows "Username already exists.") and changes neither the
\* users table nor the candidates table; a users row, once created, keeps its
\* password_hash, role and created_at, so there is exactly one users row per
\* username, with the credentials of the first successful registration.
C14_DuplicateRegistrationRejected == []OneRowPerUsername /\ [][UsersStep]_vars

\* ann registered as a Recruiter; a later Register of ann as a Candidate with
\* another password was rejected, and ann has no candidates row
C14_Witness ==
    /\ run.choice = "Register"
    /\ run.message = "Username already exists."
    /\ run.username = s_ann
    /\ run.role = s_Candidate
    /\ \E r \in users : /\ r.username = s_ann
                        /\ r.role = s_Recruiter
                        /\ r.password_hash # HashPassword(run.password)
                        /\ r.created_at < now - 1
    /\ s_ann \notin DOMAIN candidates

====
